---- MODULE Spec2Model ----
(***************************************************************************)
(* Model of starfest_2023_electrical.py: the coordinate calibration        *)
(* (compute_coord_to_pixel_function), the destination lookup               *)
(* (find_map_entry / get_destination_pixel), the layered rendering         *)
(* pipeline (draw_features, draw_lines, draw_all_features) and the map     *)
(* driver (draw_map, main).                                                *)
(*                                                                         *)
(* Numbers.  The program computes in IEEE-754 binary floating point        *)
(* (np.float64).  The model keeps the rounding behaviour and scales the    *)
(* mantissa down from 53 bits to Prec bits: a float is <<m, e>> standing   *)
(* for m * 2^e, with m = 0 or 2^(Prec-1) <= |m| < 2^Prec, and every        *)
(* operation rounds its exact result to nearest, ties to even.             *)
(***************************************************************************)
EXTENDS Integers, Sequences, FiniteSets, TLC

(***************************************************************************)
(* Bounds of the model.                                                    *)
(***************************************************************************)
Prec == 13

NumSlots == 1

MaxLines == 3

----------------------------------------------------------------------------
(***************************************************************************)
(* Floating point arithmetic (np.float64 scaled down to Prec bits).        *)
(***************************************************************************)
Abs(n) == IF n < 0 THEN 0 - n ELSE n

Sign(n) == IF n < 0 THEN 0 - 1 ELSE 1

RECURSIVE BitLen(_)
BitLen(n) == IF n = 0 THEN 0 ELSE 1 + BitLen(n \div 2)

\* The integer n scaled by 2^e, rounded to Prec bits, nearest, ties to even.
FRound(n, e) ==
  IF n = 0 THEN <<0, 0>>
  ELSE LET a == Abs(n)
           s == Sign(n)
           L == BitLen(a)
       IN  IF L <= Prec
           THEN <<s * a * 2^(Prec - L), e - (Prec - L)>>
           ELSE LET k    == L - Prec
                    q    == a \div 2^k
                    r    == a % 2^k
                    half == 2^(k - 1)
                    q2   == IF r > half \/ (r = half /\ q % 2 = 1)
                            THEN q + 1 ELSE q
                IN  IF q2 = 2^Prec
                    THEN <<s * 2^(Prec - 1), e + k + 1>>
                    ELSE <<s * q2, e + k>>

FromInt(n) == FRound(n, 0)

FNeg(x) == <<0 - x[1], x[2]>>

FAdd(x, y) ==
  IF x[1] = 0 THEN y
  ELSE IF y[1] = 0 THEN x
  ELSE LET hi == IF x[2] >= y[2] THEN x ELSE y
           lo == IF x[2] >= y[2] THEN y ELSE x
           d  == hi[2] - lo[2]
       IN  IF d > Prec + 1
           THEN hi      \* lo is below a quarter of hi's last place
           ELSE FRound(hi[1] * 2^d + lo[1], lo[2])

FSub(x, y) == FAdd(x, FNeg(y))

FMul(x, y) == FRound(x[1] * y[1], x[2] + y[2])

\* y is not zero.  The quotient keeps Prec+2 bits and a sticky bit.
FDiv(x, y) ==
  IF x[1] = 0 THEN <<0, 0>>
  ELSE LET num == Abs(x[1]) * 2^(Prec + 2)
           b   == Abs(y[1])
           q   == num \div b
           n   == 2 * q + (IF num % b = 0 THEN 0 ELSE 1)
       IN  FRound(Sign(x[1]) * Sign(y[1]) * n, x[2] - y[2] - (Prec + 3))

FAbsGreater(x, y) ==        \* |x| > |y|
  IF x[1] = 0 THEN FALSE
  ELSE IF y[1] = 0 THEN TRUE
  ELSE x[2] > y[2] \/ (x[2] = y[2] /\ Abs(x[1]) > Abs(y[1]))

\* Python's int() of a float: truncation toward zero.
FInt(x) ==
  IF x[2] >= 0 THEN x[1] * 2^(x[2])
  ELSE IF 0 - x[2] >= Prec THEN 0
  ELSE Sign(x[1]) * (Abs(x[1]) \div 2^(0 - x[2]))

----------------------------------------------------------------------------
(***************************************************************************)
(* Data model.  An optional value (Python's None or a value) is a sequence *)
(* of length 0 or 1; an optional pixel is <<>> or a pair.                  *)
(***************************************************************************)
None == <<>>

Some(v) == <<v>>

\* Geographic coordinates are held in microdegrees from the south-west
\* corner of the site, (44.073000, -80.842000), so that the coordinates of
\* the shipped catalogue are floats of Prec bits.
Long(microdegrees) == microdegrees - 44073000

Lat(microdegrees) == microdegrees + 80842000

\* MapFeature.__init__: coord is a float vector; pixel is set (as a float
\* vector) only when the argument is given.
MapFeature(name, feature_type, long, lat, map_name, destination, usage, pixel) ==
  [ name        |-> name,
    type        |-> feature_type,
    coord       |-> <<FromInt(long), FromInt(lat)>>,
    map_name    |-> map_name,
    destination |-> destination,
    users_2023  |-> usage,
    pixel       |-> IF pixel = <<>> THEN <<>>
                    ELSE <<FromInt(pixel[1]), FromInt(pixel[2])>> ]

----------------------------------------------------------------------------
(***************************************************************************)
(* compute_coord_to_pixel_function                                         *)
(***************************************************************************)
VecSub(u, v) ==
  LET a == u
      b == v
  IN  <<FSub(a[1], b[1]), FSub(a[2], b[2])>>

\* np.transpose(np.array([v0, v1])): the vectors become the columns.
\* A matrix is <<row1, row2>>.
Columns(v0, v1) == <<<<v0[1], v1[1]>>, <<v0[2], v1[2]>>>>

MatMul(A, B) ==
  LET a == A
      b == B
      Entry(i, j) == FAdd(FMul(a[i][1], b[1][j]), FMul(a[i][2], b[2][j]))
  IN  <<<<Entry(1, 1), Entry(1, 2)>>, <<Entry(2, 1), Entry(2, 2)>>>>

MatVec(A, v) ==
  LET a == A
      x == v
  IN  <<FAdd(FMul(a[1][1], x[1]), FMul(a[1][2], x[2])),
        FAdd(FMul(a[2][1], x[1]), FMul(a[2][2], x[2]))>>

FOne == FromInt(1)

FZero == <<0, 0>>

\* np.linalg.inv of a 2x2 matrix: LAPACK gesv on the identity, that is an
\* LU factorisation with partial pivoting and two triangular solves.  The
\* routine reports a singular matrix only when a pivot is exactly zero.
\* recip: the factorisation scales the column by the reciprocal of the
\* pivot (reference LAPACK) or divides by the pivot; both builds exist.
\* Result: [singular |-> BOOLEAN, X |-> matrix].
LinalgInv(A, recip) ==
  LET swap == FAbsGreater(A[2][1], A[1][1])
      r1   == IF swap THEN A[2] ELSE A[1]
      r2   == IF swap THEN A[1] ELSE A[2]
      l    == IF recip THEN FMul(r2[1], FDiv(FOne, r1[1]))
                       ELSE FDiv(r2[1], r1[1])
      u11  == r1[1]
      u12  == r1[2]
      u22  == FSub(r2[2], FMul(l, u12))
      \* the permuted identity, by columns
      b1   == IF swap THEN <<FZero, FOne>> ELSE <<FOne, FZero>>
      b2   == IF swap THEN <<FOne, FZero>> ELSE <<FZero, FOne>>
      \* forward substitution with the unit lower triangle
      y21  == FSub(b1[2], FMul(b1[1], l))
      y22  == FSub(b2[2], FMul(b2[1], l))
      \* back substitution with the upper triangle
      x21  == FDiv(y21, u22)
      x22  == FDiv(y22, u22)
      x11  == FDiv(FSub(b1[1], FMul(x21, u12)), u11)
      x12  == FDiv(FSub(b2[1], FMul(x22, u12)), u11)
  IN  IF u11[1] = 0 THEN [singular |-> TRUE, X |-> <<>>]
      ELSE IF u22[1] = 0 THEN [singular |-> TRUE, X |-> <<>>]
      ELSE [singular |-> FALSE, X |-> <<<<x11, x12>>, <<x21, x22>>>>]

\* The closure returned by compute_coord_to_pixel_function.
coord_to_pixel_helper(coord, M, basis) ==
  LET dot   == MatVec(M, VecSub(coord, basis.coord))
      pixel == <<FAdd(dot[1], basis.pixel[1]), FAdd(dot[2], basis.pixel[2])>>
  IN  <<FInt(pixel[1]), FInt(pixel[2])>>

\* Result: [error |-> "" or the exception raised, M, basis].
compute_coord_to_pixel_function(entry1, entry2, basis, recip) ==
  LET deg_vec_0   == VecSub(entry1.coord, basis.coord)
      deg_vec_1   == VecSub(entry2.coord, basis.coord)
      pixel_vec_0 == VecSub(entry1.pixel, basis.pixel)
      pixel_vec_1 == VecSub(entry2.pixel, basis.pixel)
      M_Degree    == Columns(deg_vec_0, deg_vec_1)
      M_Pixel     == Columns(pixel_vec_0, pixel_vec_1)
      inv         == LinalgInv(M_Degree, recip)
  IN  IF entry1.pixel = <<>> \/ entry2.pixel = <<>> \/ basis.pixel = <<>>
      THEN [error |-> "AttributeError", M |-> <<>>, basis |-> basis]
      ELSE IF inv.singular
      THEN [error |-> "LinAlgError", M |-> <<>>, basis |-> basis]
      ELSE [error |-> "", M |-> MatMul(M_Pixel, inv.X), basis |-> basis]

\* Calling the returned closure.
coord_to_pixel(transform, coord) ==
  coord_to_pixel_helper(coord, transform.M, transform.basis)

---------------------------------------------------------------------------------------------------------------------------------------------------
(***************************************************************************)
(* find_map_entry, get_destination_pixel and the feature filters.          *)
(***************************************************************************)
\* Python's filter(test, features), as the indices of the features it
\* yields, in the order it yields them.
\* A filter that yields the kept items last first.
FilterIndicesReversed(yields) ==
  LET Kept(i) == yields[i]
      kept == SelectSeq([i \in 1..Len(yields) |-> i], Kept)
  IN  [k \in 1..Len(kept) |-> kept[Len(kept) + 1 - k]]

\* filter(function, iterable): the indices of the items the function keeps,
\* in the iterable's order; yields[i] is the function's value on item i.
FilterIndices(yields) ==
  LET Kept(i) == yields[i]
  IN  SelectSeq([i \in 1..Len(yields) |-> i], Kept)

\* next(filter(name matches)): index of the first match, 0 for the
\* failed assertion "Map Feature <name> not found".
find_map_entry(features, name) ==
  LET found == FilterIndices([i \in 1..Len(features) |-> features[i].name = name])
  IN  IF found = <<>> THEN 0 ELSE found[1]

NotFound(name) == [type |-> "AssertionError", name |-> name]

NoError == [type |-> "", name |-> ""]

\* A lookup that gives no pixel for a name it does not find.
get_destination_pixel_lenient(map_features, destination_name, transform) ==
  IF destination_name = None \/ destination_name = Some("")
  THEN [error |-> NoError, pixel |-> None]
  ELSE LET i == find_map_entry(map_features, destination_name[1])
       IN  IF i = 0
           THEN [error |-> NoError, pixel |-> None]
           ELSE [error |-> NoError,
                 pixel |-> Some(coord_to_pixel(transform, map_features[i].coord))]

\* Result: [error, pixel]; pixel is None or Some(<<x, y>>).
\* "if destination_name:" is false for None and for the empty string.
get_destination_pixel(map_features, destination_name, transform) ==
  IF destination_name = None \/ destination_name = Some("")
  THEN [error |-> NoError, pixel |-> None]
  ELSE LET i == find_map_entry(map_features, destination_name[1])
       IN  IF i = 0
           THEN [error |-> NotFound(destination_name[1]), pixel |-> None]
           ELSE [error |-> NoError,
                 pixel |-> Some(coord_to_pixel(transform, map_features[i].coord))]

filter_for_type(filter_type, feature) == feature.type = filter_type

filter_for_line(filter_type, feature) ==
  feature.type = filter_type /\ feature.destination # None

----------------------------------------------------------------------------
(***************************************************************************)
(* The layers.  draw_all_features calls draw_roads, draw_electric_cords,   *)
(* draw_tent, draw_mats, draw_spools; each of them makes the calls of      *)
(* draw_features listed here, in this order.  A call of draw_lines spans   *)
(* the passes from one marked first to the next marked last.               *)
(***************************************************************************)
LinePass(layer, type, color, alpha, width, first, last) ==
  [ layer |-> layer, fn |-> "draw_lines", type |-> type, drawer |-> "line",
    color |-> color, alpha |-> alpha, width |-> width,
    first |-> first, last |-> last ]

MarkPass(layer, type, drawer, color) ==
  [ layer |-> layer, fn |-> "draw_features", type |-> type, drawer |-> drawer,
    color |-> color, alpha |-> 100, width |-> 0,
    first |-> FALSE, last |-> FALSE ]

draw_roads == << LinePass("Roads", "Road", "cyan", 30, 20, TRUE, TRUE) >>

draw_electric_cords ==
  << LinePass("Electrical cords", "Spool",  "blue", 50, 4, TRUE,  FALSE),
     LinePass("Electrical cords", "Source", "blue", 50, 4, FALSE, FALSE),
     LinePass("Electrical cords", "Mat",    "blue", 50, 4, FALSE, TRUE) >>

draw_tent == << LinePass("Tent outline", "Tent", "white", 50, 4, TRUE, TRUE) >>

draw_mats ==
  << MarkPass("Mats", "Mat", "crosshair", "blue"),
     MarkPass("Mats", "Mat", "label", "off_white") >>

draw_spools ==
  << MarkPass("Spools", "Spool", "crosshair", "blue"),
     MarkPass("Spools", "Spool", "label", "off_white") >>

\* The layers with the spools drawn first.
draw_all_features_spools_first ==
  draw_spools \o draw_roads \o draw_electric_cords \o draw_tent \o draw_mats

draw_all_features ==
  draw_roads \o draw_electric_cords \o draw_tent \o draw_mats \o draw_spools

\* The cursor with which pass k starts: 0 when draw_lines has yet to make
\* its scratch copy, 1 (the first of the filtered features) otherwise.
StartCursor(k) ==
  IF k <= Len(draw_all_features) /\ draw_all_features[k].fn = "draw_lines"
     /\ draw_all_features[k].first
  THEN 0 ELSE 1

\* The filter a pass gives to draw_features.
feature_filter(p, feature) ==
  IF p.fn = "draw_lines" THEN filter_for_line(p.type, feature)
                         ELSE filter_for_type(p.type, feature)

\* filter(feature_filter, features) of draw_features, as catalogue indices.
Filtered(p, features) ==
  FilterIndices([i \in 1..Len(features) |-> feature_filter(p, features[i])])

----------------------------------------------------------------------------
(***************************************************************************)
(* State.                                                                  *)
(***************************************************************************)
VARIABLES
  MAP_FEATURES,         \* the catalogue (a module constant of the program)
  pc,                   \* position of main / draw_map
  map_name,             \* argument of the running draw_map call
  image,                \* draw_map's image: None or Some([base, ops])
  map_features,         \* draw_map's filtered feature list
  map_coord_to_pixel,   \* draw_map's transform
  pass,                 \* index in draw_all_features of the running pass
  cursor,               \* draw_features: position in the filtered features
  overlay,              \* draw_lines' scratch copy: None or Some([base, ops])
  files,                \* the output file of each map
  error,                \* the exception that ended main, if any
  trace,                \* history: what has been executed, in order
  cal_pc,       \* calibration harness: "call", "apply", "returned", "raised"
  cal_in,       \* calibration harness: <<entry1, entry2, basis>>
  cal_fn,       \* calibration harness: result of compute_coord_to_pixel_function
  cal_out,      \* calibration harness: the transform applied to the three coords
  bl_pc,        \* draw_lines on pixels: "copy", "loop", "done"
  bl_image,     \* draw_lines on pixels: the image, a value per pixel
  bl_overlay,   \* draw_lines on pixels: the scratch copy
  bl_color,     \* draw_lines on pixels: the line colour
  bl_alpha,     \* draw_lines on pixels: the opacity, in percent
  bl_count,     \* draw_lines on pixels: lines drawn so far
  bl_before,    \* history: the image when draw_lines was called
  bl_covered    \* history: per pixel, the number of lines drawn over it

mainVars == <<MAP_FEATURES, pc, map_name, image, map_features,
              map_coord_to_pixel, pass, cursor, overlay, files, error, trace>>

calVars == <<cal_pc, cal_in, cal_fn, cal_out>>

blVars == <<bl_pc, bl_image, bl_overlay, bl_color, bl_alpha, bl_count,
            bl_before, bl_covered>>

vars == <<mainVars, calVars, blVars>>

MapNames == <<"map1", "map2">>

\* What <map>_spool.png holds before main runs: the output of an earlier run.
PreviousOutput == [base |-> "previous output", ops |-> <<>>]

NoTransform == [error |-> "", M |-> <<>>, basis |-> <<>>]

\* main has not started: the locals of draw_map are unset.
MainStart ==
  /\ pc = "imread"
  /\ map_name = MapNames[1]
  /\ image = None
  /\ map_features = <<>>
  /\ map_coord_to_pixel = NoTransform
  /\ pass = 1
  /\ cursor = StartCursor(1)
  /\ overlay = None
  /\ files = [m \in {"map1", "map2"} |-> PreviousOutput]
  /\ error = NoError
  /\ trace = <<>>

\* The calibration harness is not in use.
CalIdle ==
  /\ cal_pc = "idle"
  /\ cal_in = <<>>
  /\ cal_fn = NoTransform
  /\ cal_out = <<>>

\* draw_lines on pixels is not in use.
BlIdle ==
  /\ bl_pc = "idle"
  /\ bl_image = <<>>
  /\ bl_overlay = <<>>
  /\ bl_color = 0
  /\ bl_alpha = 0
  /\ bl_count = 0
  /\ bl_before = <<>>
  /\ bl_covered = <<>>

----------------------------------------------------------------------------
(***************************************************************************)
(* draw_map and main.                                                      *)
(***************************************************************************)
Raise(e) ==
  /\ pc' = "raised"
  /\ error' = e

\* cv2.imread: returns None, without raising, when the file is missing or
\* unreadable.
draw_map_imread ==
  /\ pc = "imread"
  /\ \E readable \in BOOLEAN :
       /\ image' = IF readable THEN Some([base |-> map_name, ops |-> <<>>])
                               ELSE None
       /\ trace' = Append(trace, [ev |-> "imread", map |-> map_name,
                                  readable |-> readable])
  /\ pc' = "filter"
  /\ UNCHANGED <<MAP_FEATURES, map_name, map_features, map_coord_to_pixel,
                 pass, cursor, overlay, files, error, calVars, blVars>>

\* A draw_map that hands the whole catalogue to the rendering.
draw_map_filter_none ==
  /\ pc = "filter"
  /\ map_features' = MAP_FEATURES
  /\ pc' = "calibrate"
  /\ UNCHANGED <<MAP_FEATURES, map_name, image, map_coord_to_pixel, pass,
                 cursor, overlay, files, error, trace, calVars, blVars>>

draw_map_filter ==
  /\ pc = "filter"
  /\ LET OnMap(x) == x.map_name = map_name
     IN  map_features' = SelectSeq(MAP_FEATURES, OnMap)
  /\ pc' = "calibrate"
  /\ UNCHANGED <<MAP_FEATURES, map_name, image, map_coord_to_pixel, pass,
                 cursor, overlay, files, error, trace, calVars, blVars>>

\* The three find_map_entry calls and compute_coord_to_pixel_function.
draw_map_calibrate ==
  /\ pc = "calibrate"
  /\ LET i0 == find_map_entry(map_features, map_name \o "_mark0")
         i1 == find_map_entry(map_features, map_name \o "_mark1")
         i2 == find_map_entry(map_features, map_name \o "_mark2")
     IN  IF i0 = 0 THEN
           /\ Raise(NotFound(map_name \o "_mark0"))
           /\ trace' = Append(trace, [ev |-> "find_map_entry", map |-> map_name])
           /\ UNCHANGED map_coord_to_pixel
         ELSE IF i1 = 0 THEN
           /\ Raise(NotFound(map_name \o "_mark1"))
           /\ trace' = Append(trace, [ev |-> "find_map_entry", map |-> map_name])
           /\ UNCHANGED map_coord_to_pixel
         ELSE IF i2 = 0 THEN
           /\ Raise(NotFound(map_name \o "_mark2"))
           /\ trace' = Append(trace, [ev |-> "find_map_entry", map |-> map_name])
           /\ UNCHANGED map_coord_to_pixel
         ELSE \E recip \in BOOLEAN :
           LET f == compute_coord_to_pixel_function(
                      map_features[i0], map_features[i1], map_features[i2], recip)
           IN  /\ trace' = Append(trace, [ev |-> "compute_coord_to_pixel_function",
                                          map |-> map_name])
               /\ IF f.error # ""
                  THEN /\ Raise([type |-> f.error, name |-> ""])
                       /\ UNCHANGED map_coord_to_pixel
                  ELSE /\ map_coord_to_pixel' = f
                       /\ pc' = "draw"
                       /\ UNCHANGED error
  /\ UNCHANGED <<MAP_FEATURES, map_name, image, map_features, pass, cursor,
                 overlay, files, calVars, blVars>>

\* draw_lines up to its loop: overlay = image.copy().
draw_lines_begin ==
  /\ pc = "draw"
  /\ draw_all_features[pass].fn = "draw_lines"
  /\ draw_all_features[pass].first
  /\ cursor = 0
  /\ IF image = None
     THEN /\ Raise([type |-> "AttributeError", name |-> "copy"])
          /\ UNCHANGED <<overlay, cursor>>
     ELSE /\ overlay' = image
          /\ cursor' = 1
          /\ UNCHANGED <<pc, error>>
  /\ trace' = Append(trace, [ev |-> "draw_lines", map |-> map_name,
                             layer |-> draw_all_features[pass].layer])
  /\ UNCHANGED <<MAP_FEATURES, map_name, image, map_features,
                 map_coord_to_pixel, pass, files, calVars, blVars>>

\* The operation a drawer applies to its target image.
Stroke(p, feature, pixel, dest_pixel) ==
  [ op |-> p.drawer, layer |-> p.layer, feature |-> feature.name,
    pixel |-> pixel, dest_pixel |-> dest_pixel,
    color |-> p.color, width |-> p.width ]

Drawn(img, stroke) == Some([base |-> img[1].base, ops |-> Append(img[1].ops, stroke)])

\* One iteration of the loop of draw_features.
draw_features ==
  /\ pc = "draw"
  /\ cursor > 0
  /\ LET p == draw_all_features[pass]
         selected == Filtered(p, map_features)
     IN  /\ cursor <= Len(selected)
         /\ LET i       == selected[cursor]
                feature == map_features[i]
                pixel   == coord_to_pixel(map_coord_to_pixel, feature.coord)
                dest    == get_destination_pixel(map_features, feature.destination,
                                                 map_coord_to_pixel)
                stroke  == Stroke(p, feature, pixel, dest.pixel)
                target  == IF p.drawer = "line" THEN overlay ELSE image
            IN  IF dest.error # NoError THEN
                  /\ Raise(dest.error)
                  /\ UNCHANGED <<image, overlay, cursor, trace>>
                ELSE IF target = None \/ (p.drawer = "line" /\ dest.pixel = None) THEN
                  /\ Raise([type |-> "cv2.error", name |-> feature.name])
                  /\ UNCHANGED <<image, overlay, cursor, trace>>
                ELSE
                  /\ IF p.drawer = "line"
                     THEN overlay' = Drawn(overlay, stroke) /\ UNCHANGED image
                     ELSE image' = Drawn(image, stroke) /\ UNCHANGED overlay
                  /\ cursor' = cursor + 1
                  /\ trace' = Append(trace, [ev |-> "stroke", map |-> map_name,
                                             pass |-> pass, index |-> i,
                                             type |-> feature.type,
                                             stroke |-> stroke])
                  /\ UNCHANGED <<pc, error>>
  /\ UNCHANGED <<MAP_FEATURES, map_name, map_features, map_coord_to_pixel,
                 pass, files, calVars, blVars>>

\* cv2.addWeighted(overlay, alpha, image, beta, 0, image): the image becomes
\* the blend of the overlay's strokes over what it was.
AddWeighted(ov, alpha, img) ==
  Some([base |-> img[1].base,
        ops  |-> Append(img[1].ops,
                   [ op |-> "addWeighted", alpha |-> alpha,
                     overlay |-> SubSeq(ov[1].ops, Len(img[1].ops) + 1,
                                        Len(ov[1].ops)) ])])

\* The loop of draw_features is exhausted: the pass ends; the last pass of
\* a draw_lines call blends; after the last pass draw_all_features returns.
draw_features_return ==
  /\ pc = "draw"
  /\ cursor > 0
  /\ LET p == draw_all_features[pass]
     IN  /\ cursor > Len(Filtered(p, map_features))
         /\ IF p.fn = "draw_lines" /\ p.last
            THEN /\ image' = AddWeighted(overlay, p.alpha, image)
                 /\ overlay' = None
            ELSE UNCHANGED <<image, overlay>>
         /\ trace' = Append(trace, [ev |-> "return", map |-> map_name,
                                    pass |-> pass, layer |-> p.layer,
                                    blended |-> p.fn = "draw_lines" /\ p.last])
  /\ pass' = pass + 1
  /\ cursor' = StartCursor(pass + 1)
  /\ pc' = IF pass = Len(draw_all_features) THEN "imwrite" ELSE "draw"
  /\ UNCHANGED <<MAP_FEATURES, map_name, map_features, map_coord_to_pixel,
                 files, error, calVars, blVars>>

\* A draw_map that also saves the image between two layers.
draw_map_imwrite_early ==
  /\ pc = "imwrite" \/ (pc = "draw" /\ cursor = StartCursor(pass) /\ image # None)
  /\ files' = [files EXCEPT ![map_name] = image[1]]
  /\ trace' = Append(trace, [ev |-> "imwrite", map |-> map_name])
  /\ IF map_name = MapNames[1]
     THEN /\ map_name' = MapNames[2]
          /\ pc' = "imread"
     ELSE /\ pc' = "done"
          /\ UNCHANGED map_name
  /\ image' = None
  /\ map_features' = <<>>
  /\ map_coord_to_pixel' = NoTransform
  /\ pass' = 1
  /\ cursor' = StartCursor(1)
  /\ overlay' = None
  /\ UNCHANGED <<MAP_FEATURES, error, calVars, blVars>>

\* cv2.imwrite, the return of draw_map, and main's next call.
draw_map_imwrite ==
  /\ pc = "imwrite"
  /\ files' = [files EXCEPT ![map_name] = image[1]]
  /\ trace' = Append(trace, [ev |-> "imwrite", map |-> map_name])
  /\ IF map_name = MapNames[1]
     THEN /\ map_name' = MapNames[2]
          /\ pc' = "imread"
     ELSE /\ pc' = "done"
          /\ UNCHANGED map_name
  /\ image' = None
  /\ map_features' = <<>>
  /\ map_coord_to_pixel' = NoTransform
  /\ pass' = 1
  /\ cursor' = StartCursor(1)
  /\ overlay' = None
  /\ UNCHANGED <<MAP_FEATURES, error, calVars, blVars>>

Next ==
  \/ draw_map_imread
  \/ draw_map_filter
  \/ draw_map_calibrate
  \/ draw_lines_begin
  \/ draw_features
  \/ draw_features_return
  \/ draw_map_imwrite

----------------------------------------------------------------------------
(***************************************************************************)
(* The catalogue shipped with the program.                                 *)
(***************************************************************************)
\* The calibration markers.
ShippedMarkers == <<
  MapFeature("map1_mark0","Marker",  Long(44074086), Lat(-80837580), "map1", None, None, <<1144, 560>>),
  MapFeature("map1_mark1","Marker",  Long(44075378), Lat(-80841208), "map1", None, None, <<62, 26>>),
  MapFeature("map1_mark2","Marker",  Long(44073256), Lat(-80840810), "map1", None, None, <<180, 905>>),
  MapFeature("map2_mark0","Marker",  Long(44075212), Lat(-80838710), "map2", None, None, <<20, 665>>),
  MapFeature("map2_mark1","Marker",  Long(44075634), Lat(-80836970), "map2", None, None, <<714, 432>>),
  MapFeature("map2_mark2","Marker",  Long(44075914), Lat(-80838481), "map2", None, None, <<109, 272>>) >>

\* Tent corners whose outline does not close: T0 leads to no corner.
TentCornersOpen == <<
  MapFeature("T0",        "Tent",    Long(44074405), Lat(-80840559), "map1", Some("T4"), None, None),
  MapFeature("T1",        "Tent",    Long(44074513), Lat(-80840593), "map1", Some("T0"), None, None),
  MapFeature("T2",        "Tent",    Long(44074568), Lat(-80840197), "map1", Some("T1"), None, None),
  MapFeature("T3",        "Tent",    Long(44074453), Lat(-80840174), "map1", Some("T2"), None, None) >>

\* The Tent corners.
TentCorners == <<
  MapFeature("T0",        "Tent",    Long(44074405), Lat(-80840559), "map1", Some("T3"), None, None),
  MapFeature("T1",        "Tent",    Long(44074513), Lat(-80840593), "map1", Some("T0"), None, None),
  MapFeature("T2",        "Tent",    Long(44074568), Lat(-80840197), "map1", Some("T1"), None, None),
  MapFeature("T3",        "Tent",    Long(44074453), Lat(-80840174), "map1", Some("T2"), None, None) >>

SHIPPED_MAP_FEATURES == ShippedMarkers \o TentCorners \o <<
  MapFeature("Post 1",    "Source",  Long(44074123), Lat(-80839866), "map1", None, None, None),
  MapFeature("Post 2",    "Source",  Long(44074317), Lat(-80839548), "map1", None, None, None),
  MapFeature("Post 3",    "Source",  Long(44074534), Lat(-80839359), "map1", None, None, None),
  MapFeature("Rec",       "Source",  Long(44074000), Lat(-80840586), "map1", None, None, None),
  MapFeature("RecTurn",   "Source",  Long(44073910), Lat(-80840562), "map1", Some("Rec"), None, None),
  MapFeature("DevLand",   "Source",  Long(44075484), Lat(-80838499), "map2", None, None, None),
  MapFeature("Washroom",  "Source",  Long(44074229), Lat(-80841269), "map1", None, None, None),
  MapFeature("L1-L4",     "Spool",   Long(44074388), Lat(-80840559), "map1", Some("Washroom"), None, None),
  MapFeature("L5",        "Spool",   Long(44073819), Lat(-80840144), "map1", Some("RecTurn"), Some(3), None),
  MapFeature("L6",        "Spool",   Long(44074449), Lat(-80840571), "map1", Some("Washroom"), Some(0), None),
  MapFeature("L7",        "Spool",   Long(44076034), Lat(-80838061), "map2", Some("Mat0"), Some(2), None),
  MapFeature("L8",        "Spool",   Long(44075628), Lat(-80837688), "map2", Some("Mat3"), Some(5), None),
  MapFeature("L9",        "Spool",   Long(44073794), Lat(-80839826), "map1", Some("RecTurn"), Some(5), None),
  MapFeature("L10",       "Spool",   Long(44075617), Lat(-80837186), "map2", Some("L13"), Some(6), None),
  MapFeature("L11",       "Spool",   Long(44074678), Lat(-80839005), "map1", Some("Post 3"), Some(6), None),
  MapFeature("L13",       "Spool",   Long(44075422), Lat(-80837622), "map2", Some("Mat3"), Some(4), None),
  MapFeature("L14",       "Spool",   Long(44074679), Lat(-80839006), "map1", Some("Post 3"), Some(0), None),
  MapFeature("L16",       "Spool",   Long(44073448), Lat(-80839804), "map1", Some("L5"), Some(6), None),
  MapFeature("L17",       "Spool",   Long(44074730), Lat(-80838445), "map1", Some("L14"), Some(6), None),
  MapFeature("L18",       "Spool",   Long(44074076), Lat(-80839474), "map1", Some("Post 1"), Some(6), None),
  MapFeature("L19",       "Spool",   Long(44075393), Lat(-80837898), "map2", Some("Mat3"), Some(3), None),
  MapFeature("L20",       "Spool",   Long(44074476), Lat(-80839055), "map1", Some("Post 3"), Some(5), None),
  MapFeature("L22",       "Spool",   Long(44074370), Lat(-80839333), "map1", Some("Post 2"), Some(4), None),
  MapFeature("UnB",       "Spool",   Long(44075177), Lat(-80837342), "map2", Some("L19"), Some(1), None),
  MapFeature("UnNB",      "Spool",   Long(44075834), Lat(-80836807), "map2", Some("L8"), Some(7), None),
  MapFeature("Mat0",      "Mat",     Long(44075896), Lat(-80838303), "map2", Some("Mat1"), None, None),
  MapFeature("Mat1",      "Mat",     Long(44075774), Lat(-80838389), "map2", Some("Mat2"), None, None),
  MapFeature("Mat2",      "Mat",     Long(44075555), Lat(-80838434), "map2", Some("DevLand"), None, None),
  MapFeature("Mat3",      "Mat",     Long(44075458), Lat(-80838376), "map2", Some("DevLand"), None, None),
  MapFeature("Mat4",      "Mat",     Long(44074578), Lat(-80840731), "map1", None, None, None),
  MapFeature("Mat5",      "Mat",     Long(44074298), Lat(-80841127), "map1", None, None, None),
  MapFeature("Mat6",      "Mat",     Long(44073878), Lat(-80840530), "map1", None, None, None),
  MapFeature("RC0",       "Road",    Long(44075122), Lat(-80838502), "map1", None, None, None),
  MapFeature("RC1",       "Road",    Long(44074498), Lat(-80838752), "map1", Some("RC0"), None, None),
  MapFeature("RC2",       "Road",    Long(44073886), Lat(-80839380), "map1", Some("RC1"), None, None),
  MapFeature("RC3",       "Road",    Long(44073969), Lat(-80839934), "map1", Some("RC2"), None, None),
  MapFeature("RC4",       "Road",    Long(44073790), Lat(-80840477), "map1", Some("RC3"), None, None) >>

ShippedInit ==
  /\ MAP_FEATURES = SHIPPED_MAP_FEATURES
  /\ MainStart
  /\ CalIdle
  /\ BlIdle

\* main on the shipped catalogue.
SpecShipped == ShippedInit /\ [][Next]_vars

----------------------------------------------------------------------------
(***************************************************************************)
(* main on any catalogue of the following shape: the six shipped           *)
(* calibration markers (or the markers with one of the defects below),     *)
(* four shipped features of map1 (the sources Rec and RecTurn, the spool   *)
(* L5, the mat Mat6), and then NumSlots features of any type, on either    *)
(* map, whose destination is absent, "Rec" (a feature of map1 only), the   *)
(* empty name, or "Zed" (the name of no feature).                          *)
(***************************************************************************)
\* map1_mark0 lies on the basis map1_mark2: a zero displacement vector.
DuplicateMarkers ==
  [ShippedMarkers EXCEPT ![1].coord = ShippedMarkers[3].coord]

\* map2_mark2 is not in the catalogue.
MissingMarker == SubSeq(ShippedMarkers, 1, 5)

MarkerBlocks == {ShippedMarkers, DuplicateMarkers, MissingMarker}

ShippedExcerpt ==
  LET Kept(f) == f.name \in {"Rec", "RecTurn", "L5", "Mat6"}
  IN  SelectSeq(SHIPPED_MAP_FEATURES, Kept)

SlotNames == <<"A", "B", "C", "D">>

FeatureTypes == {"Marker", "Tent", "Source", "Spool", "Mat", "Road"}

SlotDestinations == {None, Some("Rec"), Some(""), Some("Zed")}

\* The first slot lies where Mat6 lies, the next ones further north-east.
SlotFeatures(i) ==
  { MapFeature(SlotNames[i], t, Long(44073878) + 300 * (i - 1),
               Lat(-80840530) + 500 * (i - 1), m, d, None, None) :
      t \in FeatureTypes, m \in {"map1", "map2"}, d \in SlotDestinations }

RECURSIVE SlotSeqs(_)
\* The sequences of one feature per slot, for the first n slots.
SlotSeqs(n) ==
  IF n = 0 THEN {<<>>}
  ELSE {Append(q, f) : q \in SlotSeqs(n - 1), f \in SlotFeatures(n)}

Slots == SlotSeqs(NumSlots)

Init ==
  /\ \E markers \in MarkerBlocks, slots \in Slots :
       MAP_FEATURES = markers \o ShippedExcerpt \o slots
  /\ MainStart
  /\ CalIdle
  /\ BlIdle

Spec == Init /\ [][Next]_vars

----------------------------------------------------------------------------
(***************************************************************************)
(* Calibration on its own: compute_coord_to_pixel_function is called with  *)
(* a triple of calibration features drawn from CalFeatures, and the        *)
(* returned transform is applied to the three coordinates.                 *)
(***************************************************************************)
CalLongs == {0, 5, 15}

CalLats == {0, 7, 21}

CalPixels == {<<0, 0>>, <<0, 5>>, <<5, 0>>}

CalFeatures ==
  { MapFeature("m", "Marker", x, y, "map1", None, None, px) :
      x \in CalLongs, y \in CalLats, px \in CalPixels }

\* main is not running.
MainIdle ==
  /\ MAP_FEATURES = <<>>
  /\ pc = "idle"
  /\ map_name = ""
  /\ image = None
  /\ map_features = <<>>
  /\ map_coord_to_pixel = NoTransform
  /\ pass = 1
  /\ cursor = 1
  /\ overlay = None
  /\ files = [m \in {"map1", "map2"} |-> PreviousOutput]
  /\ error = NoError
  /\ trace = <<>>

CalInit ==
  /\ MainIdle
  /\ BlIdle
  /\ cal_pc = "call"
  /\ cal_in \in CalFeatures \X CalFeatures \X CalFeatures
  /\ cal_fn = NoTransform
  /\ cal_out = <<>>

CalCompute ==
  /\ cal_pc = "call"
  /\ \E recip \in BOOLEAN :
       cal_fn' = compute_coord_to_pixel_function(cal_in[1], cal_in[2], cal_in[3], recip)
  /\ cal_pc' = IF cal_fn'.error = "" THEN "apply" ELSE "raised"
  /\ UNCHANGED <<cal_in, cal_out, mainVars, blVars>>

CalApply ==
  /\ cal_pc = "apply"
  /\ cal_out' = [i \in 1..3 |-> coord_to_pixel(cal_fn, cal_in[i].coord)]
  /\ cal_pc' = "returned"
  /\ UNCHANGED <<cal_in, cal_fn, mainVars, blVars>>

CalNext == CalCompute \/ CalApply

SpecCalib == CalInit /\ [][CalNext]_vars

\* The exact (real-number) collinearity of the two displacement vectors
\* from the basis, on the float vectors the function computes.
\* (The coordinates of the model are whole numbers below 2^Prec, so the
\* float differences are exact and FInt gives their value.)
CrossIsZero(u, v) ==
  FInt(u[1]) * FInt(v[2]) = FInt(u[2]) * FInt(v[1])

Collinear(t) ==
  CrossIsZero(VecSub(t[1].coord, t[3].coord), VecSub(t[2].coord, t[3].coord))

PixelOf(f) == <<FInt(f.pixel[1]), FInt(f.pixel[2])>>

----------------------------------------------------------------------------
(***************************************************************************)
(* draw_lines on pixels.  One call of draw_lines on an image of            *)
(* BlPixels pixels (one channel): the scratch copy, up to MaxLines lines   *)
(* drawn by the drawer of create_line_drawer, each covering some pixels    *)
(* at full opacity, and the blend of cv2.addWeighted.                      *)
(***************************************************************************)
BlPixels == 1..3

BlValues == {0, 55, 200}

\* One channel of cyan / blue / white.
BlColors == {0, 128, 255}

\* The opacities of draw_roads, and of draw_tent and draw_electric_cords.
BlAlphas == {30, 50}

\* cvRound of n / 100: to nearest, ties to even.
RoundHundredth(n) ==
  LET q == n \div 100
      r == n % 100
  IN  IF r > 50 \/ (r = 50 /\ q % 2 = 1) THEN q + 1 ELSE q

\* One pixel of cv2.addWeighted(overlay, alpha, image, 1 - alpha, 0);
\* alpha in percent.
AddWeightedPixel(over, alpha, under) ==
  RoundHundredth(alpha * over + (100 - alpha) * under)

BlInit ==
  /\ MainIdle
  /\ CalIdle
  /\ bl_pc = "copy"
  /\ bl_image \in [BlPixels -> BlValues]
  /\ bl_overlay = <<>>
  /\ bl_color \in BlColors
  /\ bl_alpha \in BlAlphas
  /\ bl_count = 0
  /\ bl_before = bl_image
  /\ bl_covered = [p \in BlPixels |-> 0]

\* overlay = image.copy()
BlCopy ==
  /\ bl_pc = "copy"
  /\ bl_overlay' = bl_image
  /\ bl_pc' = "loop"
  /\ UNCHANGED <<bl_image, bl_color, bl_alpha, bl_count, bl_before, bl_covered,
                 mainVars, calVars>>

\* A drawer that blends each stroke into the image as it is drawn.
BlLineOnImage ==
  /\ bl_pc = "loop"
  /\ bl_count < MaxLines
  /\ \E segment \in (SUBSET BlPixels) \ {{}} :
       /\ bl_image' = [p \in BlPixels |->
                         IF p \in segment
                         THEN AddWeightedPixel(bl_color, bl_alpha, bl_image[p])
                         ELSE bl_image[p]]
       /\ bl_covered' = [p \in BlPixels |->
                           IF p \in segment THEN bl_covered[p] + 1
                                            ELSE bl_covered[p]]
  /\ bl_overlay' = bl_image'
  /\ bl_count' = bl_count + 1
  /\ UNCHANGED <<bl_pc, bl_color, bl_alpha, bl_before, mainVars, calVars>>

\* The drawer made by create_line_drawer(overlay, color, width), called for
\* one feature: cv2.line colours the pixels of the segment on the overlay.
BlLine ==
  /\ bl_pc = "loop"
  /\ bl_count < MaxLines
  /\ \E segment \in (SUBSET BlPixels) \ {{}} :
       /\ bl_overlay' = [p \in BlPixels |->
                           IF p \in segment THEN bl_color ELSE bl_overlay[p]]
       /\ bl_covered' = [p \in BlPixels |->
                           IF p \in segment THEN bl_covered[p] + 1
                                            ELSE bl_covered[p]]
  /\ bl_count' = bl_count + 1
  /\ UNCHANGED <<bl_pc, bl_image, bl_color, bl_alpha, bl_before,
                 mainVars, calVars>>

\* image = cv2.addWeighted(overlay, alpha, image, beta, 0, image)
BlBlend ==
  /\ bl_pc = "loop"
  /\ bl_image' = [p \in BlPixels |->
                    AddWeightedPixel(bl_overlay[p], bl_alpha, bl_image[p])]
  /\ bl_pc' = "done"
  /\ UNCHANGED <<bl_overlay, bl_color, bl_alpha, bl_count, bl_before, bl_covered,
                 mainVars, calVars>>

BlNext == BlCopy \/ BlLine \/ BlBlend

SpecBlend == BlInit /\ [][BlNext]_vars

----------------------------------------------------------------------------
(***************************************************************************)
(* Properties of the calibration (SpecCalib).                              *)
(***************************************************************************)
Degenerate == Collinear(cal_in)

\* C1: for every non-degenerate calibration triple the returned transform
\* maps each of the three calibration coordinates exactly to its own pixel
\* anchor, after the integer conversion of the transform.
C1_CalibrationExact ==
  (cal_pc = "returned" /\ ~Degenerate)
    => \A i \in 1..3 : cal_out[i] = PixelOf(cal_in[i])

\* C2: whenever the two displacement vectors from the basis are collinear
\* (a zero vector included), compute_coord_to_pixel_function raises and
\* never returns a transform.
C2_DegenerateRaises ==
  Degenerate => cal_pc \notin {"apply", "returned"}

----------------------------------------------------------------------------
(***************************************************************************)
(* Properties of main (Spec, SpecShipped).                                 *)
(***************************************************************************)
Range(q) == {q[i] : i \in 1..Len(q)}

Strokes == {i \in 1..Len(trace) : trace[i].ev = "stroke"}

\* The pairs of strokes of one map, the first drawn before the second.
StrokePairs == {ij \in Strokes \X Strokes :
                  ij[1] < ij[2] /\ trace[ij[1]].map = trace[ij[2]].map}

\* draw_all_features has ended for the running map, normally or not.
DrawingEnded ==
  pc = "imwrite" \/ (pc = "raised" /\ map_coord_to_pixel # NoTransform)

\* The types some layer draws.
DrawnTypes == {"Road", "Spool", "Source", "Mat", "Tent"}

\* The destination of f is non-null and names no feature of features.
Unresolved(f, features) ==
  f.destination # None /\ find_map_entry(features, f.destination[1]) = 0

DrawnUnresolved(features) ==
  {f \in Range(features) :
     /\ f.type \in DrawnTypes
     /\ f.destination # Some("")
     /\ Unresolved(f, features)}

RenderedBefore(m, w) ==
  /\ \E c \in 1..(w - 1) :
       trace[c] = [ev |-> "compute_coord_to_pixel_function", map |-> m]
  /\ \A k \in 1..5 :
       \E r \in 1..(w - 1) :
         /\ trace[r].ev = "return"
         /\ trace[r].map = m
         /\ trace[r].layer = <<"Roads", "Electrical cords", "Tent outline",
                               "Mats", "Spools">>[k]

\* C4: the output of a map is written only after its calibration and all
\* five layers have completed; when main ends in an error, the output file
\* of the map being drawn is as it was before.
C4_NoPartialOutput ==
  /\ \A m \in {"map1", "map2"} :
       files[m] # PreviousOutput
         => \E w \in 1..Len(trace) :
              /\ trace[w] = [ev |-> "imwrite", map |-> m]
              /\ RenderedBefore(m, w)
  /\ pc = "raised" => files[map_name] = PreviousOutput

C4_Witness ==
  /\ pc = "raised"
  /\ map_name = "map2"
  /\ files["map1"] # PreviousOutput
  /\ files["map2"] = PreviousOutput
  /\ error.type \in {"AssertionError", "LinAlgError"}

LayerOrder == <<"Roads", "Electrical cords", "Tent outline", "Mats", "Spools">>

LayerIndex(layer) == CHOOSE k \in 1..Len(LayerOrder) : LayerOrder[k] = layer

\* The stroke passes through pixel px: it is anchored there, or it is a
\* line that ends there.
Touches(stroke, px) ==
  stroke.pixel = px \/ (stroke.op = "line" /\ stroke.dest_pixel = Some(px))

\* The layers are drawn in the order Roads, Electrical cords, Tent outline,
\* Mats, Spools; every line is drawn, and blended, before any crosshair or
\* label; after a Spool label only Spool labels are drawn.
LayersInOrder ==
  /\ \A ij \in StrokePairs :
       LET a == trace[ij[1]].stroke
           b == trace[ij[2]].stroke
       IN  /\ LayerIndex(a.layer) <= LayerIndex(b.layer)
           /\ b.op = "line" => a.op = "line"
           /\ (a.op = "label" /\ a.layer = "Spools")
                => (b.op = "label" /\ b.layer = "Spools")
  /\ \A i \in Strokes, r \in 1..Len(trace) :
       (trace[r].ev = "return" /\ trace[r].blended /\ trace[r].map = trace[i].map
          /\ trace[i].stroke.op # "line")
         => r < i

\* C5 as claimed: the layers are drawn in the fixed order, so no line or
\* crosshair is ever drawn over a label after that label is drawn.
C5_NothingOverLabel ==
  /\ LayersInOrder
  /\ \A ij \in StrokePairs :
       LET a == trace[ij[1]].stroke
           b == trace[ij[2]].stroke
       IN  (a.op = "label" /\ b.op \in {"line", "crosshair"})
             => ~Touches(b, a.pixel)

\* C5 as amended: the layers are drawn in the fixed order, every line is
\* drawn and blended before any crosshair or label, and the Spool labels are
\* the last strokes; so no line is drawn over a label, and no crosshair is
\* drawn over a Spool label (a Spool crosshair is drawn after the Mat
\* labels and may cover them).
C5_LayerOrder ==
  /\ LayersInOrder
  /\ \A ij \in StrokePairs :
       LET a == trace[ij[1]].stroke
           b == trace[ij[2]].stroke
       IN  (a.op = "label" /\ b.op \in {"line", "crosshair"})
             => (a.layer = "Mats" /\ b.layer = "Spools" /\ b.op = "crosshair")

C5_Witness ==
  \E i \in Strokes, j \in Strokes, k \in Strokes :
    /\ i < j /\ j < k
    /\ trace[i].map = trace[j].map /\ trace[j].map = trace[k].map
    /\ trace[i].stroke.op = "line"
    /\ trace[j].stroke.op = "label" /\ trace[j].stroke.layer = "Mats"
    /\ trace[k].stroke.op = "crosshair" /\ trace[k].stroke.layer = "Spools"
    /\ Touches(trace[k].stroke, trace[j].stroke.pixel)

\* C6: the render of a map uses the features of that map only: the features
\* handed to calibration and drawing are exactly the catalogue's features
\* with that map_name, in catalogue order; every stroke draws a feature of
\* its map, every line ends at a feature of its map, and a lookup fails
\* exactly for a name no feature of that map has, whatever the other map
\* holds.
C6_MapIsolation ==
  LET OfMap(m) == {f \in Range(MAP_FEATURES) : f.map_name = m}
      Running(f) == f.map_name = map_name
  IN  /\ pc \in {"calibrate", "draw", "imwrite"}
        => map_features = SelectSeq(MAP_FEATURES, Running)
      /\ map_coord_to_pixel # NoTransform
        => \E b \in OfMap(map_name) : map_coord_to_pixel.basis = b
      /\ \A i \in Strokes :
           \E f \in OfMap(trace[i].map) :
             /\ f.name = trace[i].stroke.feature
             /\ f.type = trace[i].type
             /\ trace[i].stroke.op = "line"
                  => \E g \in OfMap(trace[i].map) : Some(g.name) = f.destination
      /\ error.type = "AssertionError"
        => \A f \in OfMap(map_name) : f.name # error.name

C6_Witness ==
  /\ pc = "raised"
  /\ map_name = "map2"
  /\ error = NotFound("Rec")
  /\ \E f \in Range(MAP_FEATURES) : f.name = "Rec" /\ f.map_name = "map1"
  /\ \E i \in Strokes : trace[i].map = "map1"

\* C7: when the base image of a map is unreadable, neither the marker
\* lookup nor compute_coord_to_pixel_function is executed for that map.
C7_UnreadableFailsBeforeCalibration ==
  \A i \in 1..Len(trace), j \in 1..Len(trace) :
    (trace[i].ev = "imread" /\ ~trace[i].readable /\ i < j
       /\ trace[j].map = trace[i].map)
      => trace[j].ev \notin {"find_map_entry", "compute_coord_to_pixel_function"}

\* C8 as claimed: of two strokes drawn by the same layer of a map, the
\* stroke of the feature that comes first in the catalogue is applied
\* first; the Electrical cords layer included.
C8_LayerInCatalogueOrder ==
  \A ij \in StrokePairs :
    trace[ij[1]].stroke.layer = trace[ij[2]].stroke.layer
      => trace[ij[1]].index <= trace[ij[2]].index

CordTypes == <<"Spool", "Source", "Mat">>

CordRank(type) == CHOOSE k \in 1..Len(CordTypes) : CordTypes[k] = type

\* C8 as amended: of two strokes of the same kind (line, crosshair or
\* label) drawn by the same layer for features of the same type, the stroke
\* of the feature that comes first in the catalogue is applied first; the
\* Electrical cords layer draws the lines of all Spools, then of all
\* Sources, then of all Mats, and the Mats and Spools layers draw all
\* crosshairs before all labels.
C8_PassInCatalogueOrder ==
  \A ij \in StrokePairs :
    LET a == trace[ij[1]]
        b == trace[ij[2]]
    IN  a.stroke.layer = b.stroke.layer
          => /\ (a.type = b.type /\ a.stroke.op = b.stroke.op)
                  => a.index < b.index
             /\ a.stroke.layer = "Electrical cords"
                  => CordRank(a.type) <= CordRank(b.type)
             /\ b.stroke.op = "crosshair" => a.stroke.op = "crosshair"

C8_Witness ==
  \E i \in Strokes, j \in Strokes, k \in Strokes :
    /\ i < j /\ j < k
    /\ trace[i].map = trace[j].map /\ trace[j].map = trace[k].map
    /\ trace[i].stroke.layer = "Electrical cords"
    /\ trace[k].stroke.layer = "Electrical cords"
    /\ trace[i].type = "Spool" /\ trace[j].type = "Spool"
    /\ trace[k].type = "Source"
    /\ trace[k].index < trace[i].index

----------------------------------------------------------------------------
(***************************************************************************)
(* Properties of one call of draw_lines, pixel by pixel (SpecBlend).       *)
(***************************************************************************)
\* C9: when draw_lines returns, every pixel covered by at least one line of
\* the call holds alpha*color + (1-alpha)*its previous value, however many
\* lines cover it, and every other pixel holds its previous value; until
\* the final blend the image is as it was when draw_lines was called.
C9_SingleBlend ==
  /\ bl_pc \in {"copy", "loop"} => bl_image = bl_before
  /\ bl_pc = "done"
       => \A p \in BlPixels :
            bl_image[p] = IF bl_covered[p] > 0
                          THEN AddWeightedPixel(bl_color, bl_alpha, bl_before[p])
                          ELSE bl_before[p]

C9_Witness ==
  /\ bl_pc = "done"
  /\ \E p \in BlPixels, q \in BlPixels, r \in BlPixels :
       /\ bl_covered[p] >= 2 /\ bl_covered[q] = 1 /\ bl_covered[r] = 0
       /\ bl_image[p] # bl_before[p]
       /\ bl_image[p] # AddWeightedPixel(bl_color, bl_alpha, bl_image[p])

----------------------------------------------------------------------------
(***************************************************************************)
(* Properties of main on the shipped catalogue (SpecShipped).              *)
(***************************************************************************)
\* C10: in the shipped catalogue, for both maps, feature names are unique
\* within the map, the three markers exist with pixel anchors, and every
\* non-null destination names a feature of the same map; main never ends
\* in the "Map Feature ... not found" error, and when it completes it has
\* written the output of map1 and then the output of map2.
C10_ShippedCatalogue ==
  LET OfMap(m) == {i \in 1..Len(MAP_FEATURES) : MAP_FEATURES[i].map_name = m}
      Writes == SelectSeq(trace, LAMBDA e : e.ev = "imwrite")
  IN  /\ \A m \in Range(MapNames) :
           /\ \A i \in OfMap(m), j \in OfMap(m) :
                MAP_FEATURES[i].name = MAP_FEATURES[j].name => i = j
           /\ \A k \in 0..2 :
                \E i \in OfMap(m) :
                  /\ MAP_FEATURES[i].name = <<m \o "_mark0", m \o "_mark1",
                                              m \o "_mark2">>[k + 1]
                  /\ MAP_FEATURES[i].pixel # None
           /\ \A i \in OfMap(m) :
                MAP_FEATURES[i].destination # None
                  => \E j \in OfMap(m) :
                       Some(MAP_FEATURES[j].name) = MAP_FEATURES[i].destination
      /\ \A i \in 1..Len(MAP_FEATURES) : MAP_FEATURES[i].map_name \in Range(MapNames)
      /\ error.type # "AssertionError"
      /\ pc = "done"
           => /\ Writes = << [ev |-> "imwrite", map |-> "map1"],
                             [ev |-> "imwrite", map |-> "map2"] >>
              /\ \A m \in Range(MapNames) : files[m] # PreviousOutput

C10_Witness ==
  /\ pc = "done"
  /\ \A m \in Range(MapNames) :
       /\ files[m].base = m
       /\ \E k \in 1..Len(files[m].ops) :
            /\ files[m].ops[k].op = "addWeighted"
            /\ files[m].ops[k].overlay # <<>>

====
